---- MODULE Spec2Model ----
(***************************************************************************)
(* Model of source/common/upstream/thread_aware_lb_impl.cc:                *)
(* ThreadAwareLoadBalancerBase (initialize, refresh), its                  *)
(* LoadBalancerFactoryImpl (create) and LoadBalancerImpl (chooseHost).     *)
(*                                                                         *)
(* One control thread runs initialize() and the member-update callback,    *)
(* both of which run refresh(); worker threads run create() and then       *)
(* chooseHost() on the selector they got.  shared_ptr targets live in a    *)
(* heap with explicit reference counts.  The three objects allocated by    *)
(* the k-th refresh() call have address k; address 0 is nullptr.           *)
(***************************************************************************)
EXTENDS Integers, Sequences, FiniteSets, TLC

\* ---------------------------------------------------------------- bounds
MaxRefresh == 2
NumWorkers == 2
MaxPriorities == 2

Workers == 1..NumWorkers
\* The worker whose chooseHost calls and successive selectors are recorded in
\* last and prev (the workers are interchangeable, so any one stands for all).
Observed == 1
Gens == 1..MaxRefresh

NullPtr == 0
NoHost == "none"
NoPriority == -1
NoHash == -1

RECURSIVE SumSeq(_)
SumSeq(s) == IF s = <<>> THEN 0 ELSE Head(s) + SumSeq(Tail(s))

\* ------------------------------------------------- inputs (collaborators)
\* A host set of the priority set: its priority and its hosts.
HostSet(p, hs) == [priority |-> p, hosts |-> hs]

\* What the topology source and LoadBalancerBase hand to refresh(): the host
\* sets, the per-priority panic flags and the two per-priority load tables.
Topology(sets, panic, healthy, degraded) ==
  [priority_set_ |-> sets, per_priority_panic_ |-> panic,
   healthy_per_priority_load_ |-> healthy,
   degraded_per_priority_load_ |-> degraded]

\* The topologies the concurrent specification moves between, as a sequence.
Scenarios ==
  << Topology(<<HostSet(0, <<"a">>)>>, <<FALSE>>, <<100>>, <<0>>),
     Topology(<<HostSet(0, <<>>), HostSet(1, <<"b", "c">>)>>,
              <<TRUE, FALSE>>, <<30, 70>>, <<0, 0>>) >>

\* The topologies the selection specification starts from: every load table
\* over Weights whose healthy and degraded weights total at most 100, with
\* every combination of panic flags, for 1..MaxPriorities levels.
Weights == {0, 30, 40, 70, 100}
LevelHosts(p) == IF p % 2 = 0 THEN <<"a", "b">> ELSE <<"c">>
\* The sequences of length n over S.
RECURSIVE SeqsOf(_, _)
SeqsOf(S, n) ==
  IF n = 0 THEN {<<>>} ELSE {Append(s, x) : s \in SeqsOf(S, n - 1), x \in S}
\* The host sets of priorities 0..n-1.
RECURSIVE Levels(_)
Levels(n) ==
  IF n = 0 THEN <<>> ELSE Append(Levels(n - 1), HostSet(n - 1, LevelHosts(n - 1)))
LoadTables(n) ==
  {hd \in SeqsOf(Weights, n) \X SeqsOf(Weights, n) :
     SumSeq(hd[1]) + SumSeq(hd[2]) <= 100}
WideTopologies ==
  UNION { { Topology(Levels(n), pf, hd[1], hd[2]) :
              pf \in SeqsOf(BOOLEAN, n), hd \in LoadTables(n) }
          : n \in 1..MaxPriorities }

\* The edge topologies: no priority level at all, a single level without
\* hosts, and all-zero load tables over two levels of which one has no hosts.
EdgeTopologies ==
  { Topology(<<>>, <<>>, <<>>, <<>>),
    Topology(<<HostSet(0, <<>>)>>, <<FALSE>>, <<100>>, <<0>>),
    Topology(<<HostSet(0, <<"a">>), HostSet(1, <<>>)>>,
             <<FALSE, TRUE>>, <<0, 0>>, <<0, 0>>),
    Topology(<<HostSet(0, <<>>), HostSet(1, <<"b">>)>>,
             <<TRUE, FALSE>>, <<0, 0>>, <<0, 0>>) }

\* Hash values a context supplies, and values random_.random() returns,
\* listed as sequences.
Hashes == <<29, 70>>
WideHashes == <<0, 29, 30, 99, 140>>
Randoms == <<29, 70>>

\* The elements of a sequence.
Range(s) == {s[i] : i \in 1..Len(s)}

\* A LoadBalancerContext*: nullptr, or a context whose computeHashKey()
\* yields hash (NoHash for an empty optional).
NoContext == [present |-> FALSE, hash |-> NoHash]
Context(hash) == [present |-> TRUE, hash |-> hash]

\* The inputs of a chooseHost call: the context, and the value random_ would
\* return if drawn.
Calls(hs, rs) ==
  {[context |-> c, rnd |-> r] :
     c \in {NoContext, Context(NoHash)} \cup {Context(h) : h \in Range(hs)},
     r \in Range(rs)}

\* The calls whose context supplies the hash.
HashCalls(hs, rs) == {c \in Calls(hs, rs) : c.context.hash # NoHash}

\* ------------------------------------------------------------------ state
VARIABLES
  priority_set_,                \* ThreadAwareLoadBalancerBase: the host sets
  per_priority_panic_,          \* LoadBalancerBase: panic flag per priority
  healthy_per_priority_load_,   \* LoadBalancerBase: healthy load per priority
  degraded_per_priority_load_,  \* LoadBalancerBase: degraded load per priority
  subscribed,                   \* the member-update callback is registered
  factory_,                     \* LoadBalancerFactoryImpl's three shared_ptrs
  mutex_,                       \* factory_->mutex_: writer held, reader holders
  heap,                         \* the shared_ptr targets, by address
  ctl,                          \* control thread: pc and refresh()'s locals
  nRefresh,                     \* refresh() calls started so far
  wpc,                          \* worker: position in create()
  lb,                           \* worker: its LoadBalancerImpl's three shared_ptrs
  last,                         \* the observed worker's latest chooseHost call
  memo,                         \* an earlier chooseHost call, kept for comparison
  before,                       \* history: factory_ when the running refresh() began
  outcome,                      \* history: "building" from the start of a refresh(),
                                \* "published" once line 42 has run, "failed" on a throw
  snap,                         \* history: what each selector pointed at on creation
  prev                          \* history: generation of the observed worker's previous selector

baseVars == <<priority_set_, per_priority_panic_, healthy_per_priority_load_,
              degraded_per_priority_load_>>
ctlVars == <<subscribed, ctl, nRefresh, before, outcome>>
workerVars == <<wpc, lb, snap, prev>>
callVars == <<last, memo>>
vars == <<baseVars, ctlVars, workerVars, callVars, factory_, mutex_, heap>>

\* ------------------------------------------------------------------- heap
Kinds == {"healthy", "degraded", "state"}
NullObj == [rc |-> 0, live |-> FALSE, val |-> <<>>]
NewObj(v) == [rc |-> 1, live |-> TRUE, val |-> v]

\* Copying a shared_ptr to address g.
IncRef(hp, k, g) ==
  IF g = NullPtr THEN hp ELSE [hp EXCEPT ![g][k].rc = @ + 1]

\* Dropping a shared_ptr to address g; the last one frees the target.
DecRef(hp, k, g) ==
  IF g = NullPtr THEN hp
  ELSE IF hp[g][k].rc <= 1 THEN [hp EXCEPT ![g][k] = NullObj]
  ELSE [hp EXCEPT ![g][k].rc = @ - 1]

\* shared_ptr copy assignment: dst (now pointing at old) = src (pointing at g).
AssignPtr(hp, k, old, g) == DecRef(IncRef(hp, k, g), k, old)

NullPtrs == [healthy |-> NullPtr, degraded |-> NullPtr, state |-> NullPtr]

\* A std::unique_ptr<PerPriorityState>: empty, or a state with its flag and LB.
NullState == [set |-> FALSE, global_panic_ |-> FALSE,
              current_lb_ |-> [hosts |-> <<>>, built |-> FALSE, in_panic |-> FALSE]]

\* --------------------------------------------- collaborators' operations
\* createLoadBalancer(host_set, in_panic): the pluggable strategy's selector
\* for one level, built from the level's hosts.
createLoadBalancer(host_set, in_panic) ==
  [hosts |-> host_set.hosts, built |-> TRUE, in_panic |-> in_panic]

\* current_lb_->chooseHost(h): a host of the level picked by the hash, or no
\* host when the level has none.
lbChooseHost(current_lb, h) ==
  IF current_lb.hosts = <<>> THEN NoHost
  ELSE current_lb.hosts[(h % Len(current_lb.hosts)) + 1]

\* One pass of LoadBalancerBase::choosePriority over a load table: the first
\* index (0-based) whose running total exceeds the point, else -1, with the
\* running total carried on.
RECURSIVE ScanLoad(_, _, _, _)
ScanLoad(load, i, acc, point) ==
  IF i > Len(load) THEN [found |-> NoPriority, acc |-> acc]
  ELSE IF point < acc + load[i] THEN [found |-> i - 1, acc |-> acc + load[i]]
  ELSE ScanLoad(load, i + 1, acc + load[i], point)

\* LoadBalancerBase::choosePriority(hash, healthy, degraded): the pair
\* <<priority, availability>>.
choosePriority(hash, healthy, degraded) ==
  LET point == hash % 100
      pass1 == ScanLoad(healthy, 1, 0, point)
      pass2 == ScanLoad(degraded, 1, pass1.acc, point)
  IN  IF pass1.found # NoPriority THEN <<pass1.found, "Healthy">>
      ELSE IF pass2.found # NoPriority THEN <<pass2.found, "Degraded">>
      ELSE <<Len(healthy) - 1, "Fallback">>

\* A vector of n copies of x.
RECURSIVE Repeat(_, _)
Repeat(x, n) == IF n = 0 THEN <<>> ELSE Append(Repeat(x, n - 1), x)

\* --------------------------------------------------------------- refresh
\* Lines 22-25: the new state vector (one empty slot per host set) and the
\* copies of the two load tables, each behind a fresh shared_ptr.
NewGeneration(t) ==
  [healthy  |-> NewObj(t.healthy_per_priority_load_),
   degraded |-> NewObj(t.degraded_per_priority_load_),
   state    |-> NewObj(Repeat(NullState, Len(t.priority_set_)))]

CurrentTopology ==
  Topology(priority_set_, per_priority_panic_, healthy_per_priority_load_,
           degraded_per_priority_load_)

\* refresh() entered with the builder's inputs t: lines 22-25.
RefreshBegin(t) ==
  LET g == nRefresh + 1 IN
  /\ nRefresh' = g
  /\ heap' = [heap EXCEPT ![g] = NewGeneration(t)]
  /\ ctl' = [pc |-> IF Len(t.priority_set_) = 0 THEN "lock" ELSE "build",
             gen |-> g, idx |-> 1, result |-> "running"]
  /\ before' = factory_
  /\ outcome' = [outcome EXCEPT ![g] = "building"]

\* Mutant of Initialize: the callback is registered but refresh() is not
\* called.
InitializeSubscribesOnly ==
  /\ ctl.pc = "start"
  /\ subscribed' = TRUE
  /\ ctl' = [pc |-> "idle", gen |-> NullPtr, idx |-> 0, result |-> "returned"]
  /\ UNCHANGED <<baseVars, nRefresh, before, outcome, heap, workerVars, callVars,
                 factory_, mutex_>>

\* initialize(): register the member-update callback, then refresh().
Initialize ==
  /\ ctl.pc = "start"
  /\ subscribed' = TRUE
  /\ RefreshBegin(CurrentTopology)
  /\ UNCHANGED <<baseVars, workerVars, callVars, factory_, mutex_>>

\* A membership or health change: the topology source and LoadBalancerBase
\* update the builder's inputs, then the registered callback runs refresh().
MemberUpdate(ts) ==
  /\ ctl.pc = "idle"
  /\ subscribed
  /\ nRefresh < MaxRefresh
  /\ \E t \in Range(ts) :
       /\ priority_set_' = t.priority_set_
       /\ per_priority_panic_' = t.per_priority_panic_
       /\ healthy_per_priority_load_' = t.healthy_per_priority_load_
       /\ degraded_per_priority_load_' = t.degraded_per_priority_load_
       /\ RefreshBegin(t)
  /\ UNCHANGED <<subscribed, workerVars, callVars, factory_, mutex_>>

\* Mutant of RefreshBuildLevel: the panic flag is passed to the strategy but
\* not stored in the state.
RefreshBuildLevelDropsFlag ==
  /\ ctl.pc = "build"
  /\ LET host_set == priority_set_[ctl.idx]
         priority == host_set.priority
         panic    == per_priority_panic_[priority + 1]
         state    == [set |-> TRUE, global_panic_ |-> FALSE,
                      current_lb_ |-> createLoadBalancer(host_set, panic)]
     IN  heap' = [heap EXCEPT ![ctl.gen].state.val[priority + 1] = state]
  /\ ctl' = [ctl EXCEPT !.idx = @ + 1,
                        !.pc = IF ctl.idx = Len(priority_set_) THEN "lock" ELSE "build"]
  /\ UNCHANGED <<baseVars, subscribed, nRefresh, before, outcome, workerVars,
                 callVars, factory_, mutex_>>

\* Mutant of RefreshBuildLevel: the level is rebuilt in place, in the state
\* vector the factory points at, when it has that slot.
RefreshBuildLevelInPlace ==
  /\ ctl.pc = "build"
  /\ LET host_set == priority_set_[ctl.idx]
         priority == host_set.priority
         panic    == per_priority_panic_[priority + 1]
         state    == [set |-> TRUE, global_panic_ |-> panic,
                      current_lb_ |-> createLoadBalancer(host_set, panic)]
         current  == factory_.state
         in_place == /\ current # NullPtr
                     /\ priority + 1 \in DOMAIN heap[current].state.val
         target   == IF in_place THEN current ELSE ctl.gen
     IN  heap' = [heap EXCEPT ![target].state.val[priority + 1] = state]
  /\ ctl' = [ctl EXCEPT !.idx = @ + 1,
                        !.pc = IF ctl.idx = Len(priority_set_) THEN "lock" ELSE "build"]
  /\ UNCHANGED <<baseVars, subscribed, nRefresh, before, outcome, workerVars,
                 callVars, factory_, mutex_>>

\* Mutant of RefreshBuildLevel: the writer lock is taken before the loop, so
\* the levels are built while it is held.
RefreshBuildLevelLocked ==
  /\ ctl.pc = "build"
  /\ mutex_.writer \/ (~mutex_.writer /\ mutex_.readers = {})
  /\ mutex_' = [mutex_ EXCEPT !.writer = TRUE]
  /\ LET host_set == priority_set_[ctl.idx]
         priority == host_set.priority
         panic    == per_priority_panic_[priority + 1]
         state    == [set |-> TRUE, global_panic_ |-> panic,
                      current_lb_ |-> createLoadBalancer(host_set, panic)]
     IN  heap' = [heap EXCEPT ![ctl.gen].state.val[priority + 1] = state]
  /\ ctl' = [ctl EXCEPT !.idx = @ + 1,
                        !.pc = IF ctl.idx = Len(priority_set_) THEN "lock" ELSE "build"]
  /\ UNCHANGED <<baseVars, subscribed, nRefresh, before, outcome, workerVars,
                 callVars, factory_>>

\* Lines 27-36, one iteration whose createLoadBalancer returns.
RefreshBuildLevel ==
  /\ ctl.pc = "build"
  /\ LET host_set == priority_set_[ctl.idx]
         priority == host_set.priority
         panic    == per_priority_panic_[priority + 1]
         state    == [set |-> TRUE, global_panic_ |-> panic,
                      current_lb_ |-> createLoadBalancer(host_set, panic)]
     IN  heap' = [heap EXCEPT ![ctl.gen].state.val[priority + 1] = state]
  /\ ctl' = [ctl EXCEPT !.idx = @ + 1,
                        !.pc = IF ctl.idx = Len(priority_set_) THEN "lock" ELSE "build"]
  /\ UNCHANGED <<baseVars, subscribed, nRefresh, before, outcome, workerVars,
                 callVars, factory_, mutex_>>

\* Mutant of RefreshBuildThrows: the exception is swallowed and refresh()
\* goes on to publish what it has built.
RefreshBuildSwallows ==
  /\ ctl.pc = "build"
  /\ ctl' = [ctl EXCEPT !.pc = "lock"]
  /\ outcome' = [outcome EXCEPT ![ctl.gen] = "failed"]
  /\ UNCHANGED <<baseVars, subscribed, nRefresh, before, workerVars, callVars,
                 factory_, mutex_, heap>>

\* Mutant of RefreshBuildThrows: on failure the factory's snapshot is cleared.
RefreshBuildThrowsClearing ==
  /\ ctl.pc = "build"
  /\ ~mutex_.writer /\ mutex_.readers = {}
  /\ factory_' = NullPtrs
  /\ heap' = LET h1 == DecRef(DecRef(DecRef(heap, "state", ctl.gen), "degraded", ctl.gen),
                              "healthy", ctl.gen)
             IN  DecRef(DecRef(DecRef(h1, "state", factory_.state),
                               "degraded", factory_.degraded), "healthy", factory_.healthy)
  /\ ctl' = [pc |-> "idle", gen |-> NullPtr, idx |-> 0, result |-> "threw"]
  /\ outcome' = [outcome EXCEPT ![ctl.gen] = "failed"]
  /\ UNCHANGED <<baseVars, subscribed, nRefresh, before, workerVars, callVars, mutex_>>

\* Lines 27-36, an iteration whose createLoadBalancer throws: the exception
\* leaves refresh(), whose three locals are destroyed, and reaches the caller
\* of initialize() or of the callback.
RefreshBuildThrows ==
  /\ ctl.pc = "build"
  /\ heap' = DecRef(DecRef(DecRef(heap, "state", ctl.gen), "degraded", ctl.gen),
                    "healthy", ctl.gen)
  /\ ctl' = [pc |-> "idle", gen |-> NullPtr, idx |-> 0, result |-> "threw"]
  /\ outcome' = [outcome EXCEPT ![ctl.gen] = "failed"]
  /\ UNCHANGED <<baseVars, subscribed, nRefresh, before, workerVars, callVars,
                 factory_, mutex_>>

\* Mutant of WriterLockFree: the writer does not wait for the readers.
WriterLockIgnoresReaders == ~mutex_.writer

\* absl::Mutex: a writer may take the lock when nobody holds it, a reader
\* when no writer holds it.
WriterLockFree == ~mutex_.writer /\ mutex_.readers = {}
\* Mutant of ReaderLockFree: a reader enters although a writer holds the lock.
ReaderLockIgnoresWriter == TRUE
ReaderLockFree == ~mutex_.writer

\* factory_-><field k> = <local>.
Publish(k) ==
  /\ factory_' = [factory_ EXCEPT ![k] = ctl.gen]
  /\ heap' = AssignPtr(heap, k, factory_[k], ctl.gen)

\* Line 39: absl::WriterMutexLock lock(&factory_->mutex_) finds the lock held
\* by readers: refresh() blocks inside Lock().
RefreshBlock ==
  /\ ctl.pc = "lock"
  /\ ~WriterLockFree
  /\ ctl' = [ctl EXCEPT !.pc = "wait"]
  /\ UNCHANGED <<baseVars, subscribed, nRefresh, before, outcome, workerVars,
                 callVars, factory_, mutex_, heap>>

\* Lines 39-40: absl::WriterMutexLock lock(&factory_->mutex_) acquires the
\* lock, at once or after blocking, then the healthy load is published.
RefreshLock ==
  /\ ctl.pc \in {"lock", "wait"}
  /\ WriterLockFree
  /\ mutex_' = [mutex_ EXCEPT !.writer = TRUE]
  /\ Publish("healthy")
  /\ ctl' = [ctl EXCEPT !.pc = "set_degraded"]
  /\ UNCHANGED <<baseVars, subscribed, nRefresh, before, outcome, workerVars,
                 callVars>>

\* Line 41: the degraded load is published.
RefreshSetDegraded ==
  /\ ctl.pc = "set_degraded"
  /\ Publish("degraded")
  /\ ctl' = [ctl EXCEPT !.pc = "set_state"]
  /\ UNCHANGED <<baseVars, subscribed, nRefresh, before, outcome, workerVars,
                 callVars, mutex_>>

\* Line 42: the state vector is published; with it the factory's three
\* fields are those of this generation.
RefreshSetState ==
  /\ ctl.pc = "set_state"
  /\ Publish("state")
  /\ ctl' = [ctl EXCEPT !.pc = "unlock"]
  /\ outcome' = [outcome EXCEPT ![ctl.gen] = "published"]
  /\ UNCHANGED <<baseVars, subscribed, nRefresh, before, workerVars, callVars,
                 mutex_>>

\* Line 43: the scope of the WriterMutexLock ends and the lock is released.
RefreshUnlock ==
  /\ ctl.pc = "unlock"
  /\ mutex_' = [mutex_ EXCEPT !.writer = FALSE]
  /\ ctl' = [ctl EXCEPT !.pc = "return"]
  /\ UNCHANGED <<baseVars, subscribed, nRefresh, before, outcome, workerVars,
                 callVars, factory_, heap>>

\* Line 44: refresh() returns: its three locals are destroyed.
RefreshReturn ==
  /\ ctl.pc = "return"
  /\ heap' = DecRef(DecRef(DecRef(heap, "state", ctl.gen), "degraded", ctl.gen),
                    "healthy", ctl.gen)
  /\ ctl' = [pc |-> "idle", gen |-> NullPtr, idx |-> 0, result |-> "returned"]
  /\ UNCHANGED <<baseVars, subscribed, nRefresh, before, outcome, workerVars,
                 callVars, factory_, mutex_>>

\* What a chooseHost call did: the host returned, the priority chosen, the
\* number of stats_.lb_healthy_panic_.inc() calls, whether random_.random()
\* was drawn, the calls of computeHashKey(), the value h, and whether the call
\* faulted.
EarlyReturn ==
  [priority |-> NoPriority, h |-> NoHash, host |-> NoHost, panic_inc |-> 0,
   rng |-> FALSE, hash_calls |-> 0, fault |-> FALSE]

\* No chooseHost call: the value of last and memo before any call.
NoCall == [context |-> NoContext, w |-> 0, out |-> EarlyReturn,
           expect |-> EarlyReturn, current |-> NullPtr]
NoMemo == [context |-> NoContext, snap |-> [k \in Kinds |-> <<>>], w |-> 0,
           out |-> EarlyReturn, sel |-> NullPtrs]

\* ---------------------------------------------------------------- create
\* What a shared_ptr to address g of kind k points at (nothing for nullptr).
Target(hp, k, g) == IF g = NullPtr THEN <<>> ELSE hp[g][k].val

\* Mutant of Copy: the selector keeps a plain pointer, taking no reference.
CopyPlainPointer(w, k) ==
  /\ lb' = [lb EXCEPT ![w][k] = factory_[k]]
  /\ heap' = heap
  /\ snap' = [snap EXCEPT ![w][k] = Target(heap, k, factory_[k])]

\* lb-><field k> = <field k>.
Copy(w, k) ==
  /\ lb' = [lb EXCEPT ![w][k] = factory_[k]]
  /\ heap' = AssignPtr(heap, k, lb[w][k], factory_[k])
  /\ snap' = [snap EXCEPT ![w][k] = Target(heap, k, factory_[k])]

\* Lines 72-73: create() is called and makes the new LoadBalancerImpl, whose
\* three shared_ptrs are null; it has not asked for the lock yet.
CreateBegin(w) ==
  /\ wpc[w] = "none"
  /\ wpc' = [wpc EXCEPT ![w] = "enter"]
  /\ UNCHANGED <<baseVars, ctlVars, callVars, lb, snap, prev, factory_, mutex_,
                 heap>>

\* Lines 77-78: absl::ReaderMutexLock lock(&mutex_) acquires the lock, at
\* once or after blocking, then the healthy load is copied.
CreateLock(w) ==
  /\ wpc[w] = "enter"
  /\ ReaderLockFree
  /\ mutex_' = [mutex_ EXCEPT !.readers = @ \cup {w}]
  /\ Copy(w, "healthy")
  /\ wpc' = [wpc EXCEPT ![w] = "copy_degraded"]
  /\ UNCHANGED <<baseVars, ctlVars, callVars, prev, factory_>>

\* Line 79: the degraded load is copied.
CreateCopyDegraded(w) ==
  /\ wpc[w] = "copy_degraded"
  /\ Copy(w, "degraded")
  /\ wpc' = [wpc EXCEPT ![w] = "copy_state"]
  /\ UNCHANGED <<baseVars, ctlVars, callVars, prev, factory_, mutex_>>

\* Mutant of CreateReturn: the selector is returned but the reader lock is
\* kept.
CreateReturnKeepsLock(w) ==
  /\ wpc[w] = "copy_state"
  /\ Copy(w, "state")
  /\ mutex_' = mutex_
  /\ wpc' = [wpc EXCEPT ![w] = "have"]
  /\ UNCHANGED <<baseVars, ctlVars, callVars, prev, factory_>>

\* Lines 80-83: the state vector is copied, the selector returned and the
\* reader lock released.
CreateReturn(w) ==
  /\ wpc[w] = "copy_state"
  /\ Copy(w, "state")
  /\ mutex_' = [mutex_ EXCEPT !.readers = @ \ {w}]
  /\ wpc' = [wpc EXCEPT ![w] = "have"]
  /\ UNCHANGED <<baseVars, ctlVars, callVars, prev, factory_>>

\* The worker drops its selector (the LoadBalancerPtr goes out of scope): its
\* three shared_ptrs are destroyed.
DestroySelector(w) ==
  /\ wpc[w] = "have"
  /\ heap' = DecRef(DecRef(DecRef(heap, "state", lb[w].state),
                           "degraded", lb[w].degraded), "healthy", lb[w].healthy)
  /\ prev' = IF w = Observed THEN lb[w].state ELSE prev
  /\ lb' = [lb EXCEPT ![w] = NullPtrs]
  /\ snap' = [snap EXCEPT ![w] = [k \in Kinds |-> <<>>]]
  /\ wpc' = [wpc EXCEPT ![w] = "none"]
  /\ last' = IF last.w = w THEN NoCall ELSE last
  /\ UNCHANGED <<baseVars, ctlVars, memo, factory_, mutex_>>

\* ------------------------------------------------------------ chooseHost
\* The call's behaviour is defined: no null or dangling pointer is
\* dereferenced and the state vector is indexed within its range.
Defined(sel, hp, context, rnd) ==
  \/ sel.state = NullPtr
  \/ /\ sel.healthy # NullPtr /\ hp[sel.healthy].healthy.live
     /\ sel.degraded # NullPtr /\ hp[sel.degraded].degraded.live
     /\ hp[sel.state].state.live
     /\ LET hash == IF context.present THEN context.hash ELSE NoHash
            h == IF hash # NoHash THEN hash ELSE rnd
            priority == choosePriority(h, hp[sel.healthy].healthy.val,
                                       hp[sel.degraded].degraded.val)[1]
            vec == hp[sel.state].state.val
        IN  /\ priority + 1 \in DOMAIN vec
            /\ vec[priority + 1].set
            /\ vec[priority + 1].current_lb_.built

\* Mutant of chooseHost: the two load tables are passed in the wrong order.
chooseHostSwapsLoads(sel, hp, context, rnd) ==
  IF sel.state = NullPtr THEN EarlyReturn
  ELSE
    LET hash == IF context.present THEN context.hash ELSE NoHash
        h == IF hash # NoHash THEN hash ELSE rnd
        priority == choosePriority(h, hp[sel.degraded].degraded.val,
                                   hp[sel.healthy].healthy.val)[1]
        per_priority_state == hp[sel.state].state.val[priority + 1]
    IN  [priority |-> priority,
         h |-> h,
         host |-> lbChooseHost(per_priority_state.current_lb_, h),
         panic_inc |-> IF per_priority_state.global_panic_ THEN 1 ELSE 0,
         rng |-> hash = NoHash,
         hash_calls |-> IF context.present THEN 1 ELSE 0,
         fault |-> FALSE]

\* Mutant of chooseHost: a point the load tables do not cover yields no host
\* instead of the last level's.
chooseHostFailsUncovered(sel, hp, context, rnd) ==
  IF sel.state = NullPtr THEN EarlyReturn
  ELSE
    LET hash == IF context.present THEN context.hash ELSE NoHash
        h == IF hash # NoHash THEN hash ELSE rnd
        priority == choosePriority(h, hp[sel.healthy].healthy.val,
                                   hp[sel.degraded].degraded.val)[1]
        covered == h % 100 < SumSeq(hp[sel.healthy].healthy.val)
                             + SumSeq(hp[sel.degraded].degraded.val)
        per_priority_state == hp[sel.state].state.val[priority + 1]
    IN  [priority |-> IF covered THEN priority ELSE NoPriority,
         h |-> h,
         host |-> IF covered THEN lbChooseHost(per_priority_state.current_lb_, h)
                  ELSE NoHost,
         panic_inc |-> IF covered /\ per_priority_state.global_panic_ THEN 1 ELSE 0,
         rng |-> hash = NoHash,
         hash_calls |-> IF context.present THEN 1 ELSE 0,
         fault |-> FALSE]

\* Mutant of chooseHost: the context's hash is ignored and the RNG always drawn.
chooseHostIgnoresHash(sel, hp, context, rnd) ==
  IF sel.state = NullPtr THEN EarlyReturn
  ELSE
    LET hash == IF context.present THEN context.hash ELSE NoHash
        h == rnd
        priority == choosePriority(h, hp[sel.healthy].healthy.val,
                                   hp[sel.degraded].degraded.val)[1]
        per_priority_state == hp[sel.state].state.val[priority + 1]
    IN  [priority |-> priority,
         h |-> h,
         host |-> lbChooseHost(per_priority_state.current_lb_, h),
         panic_inc |-> IF per_priority_state.global_panic_ THEN 1 ELSE 0,
         rng |-> TRUE,
         hash_calls |-> IF context.present THEN 1 ELSE 0,
         fault |-> FALSE]

\* Mutant of chooseHost: the selector reads the factory's current fields
\* instead of the ones it copied.
chooseHostFromFactory(sel, hp, context, rnd) ==
  IF sel.state = NullPtr THEN EarlyReturn
  ELSE IF ~Defined(factory_, hp, context, rnd) \/ factory_.state = NullPtr
  THEN [EarlyReturn EXCEPT !.fault = TRUE]
  ELSE
    LET hash == IF context.present THEN context.hash ELSE NoHash
        h == IF hash # NoHash THEN hash ELSE rnd
        priority == choosePriority(h, hp[factory_.healthy].healthy.val,
                                   hp[factory_.degraded].degraded.val)[1]
        per_priority_state == hp[factory_.state].state.val[priority + 1]
    IN  [priority |-> priority,
         h |-> h,
         host |-> lbChooseHost(per_priority_state.current_lb_, h),
         panic_inc |-> IF per_priority_state.global_panic_ THEN 1 ELSE 0,
         rng |-> hash = NoHash,
         hash_calls |-> IF context.present THEN 1 ELSE 0,
         fault |-> FALSE]

\* Mutant of chooseHost: the panic flag is read from the builder's current
\* per_priority_panic_ instead of the captured state.
chooseHostBuilderPanic(sel, hp, context, rnd) ==
  IF sel.state = NullPtr THEN EarlyReturn
  ELSE
    LET hash == IF context.present THEN context.hash ELSE NoHash
        h == IF hash # NoHash THEN hash ELSE rnd
        priority == choosePriority(h, hp[sel.healthy].healthy.val,
                                   hp[sel.degraded].degraded.val)[1]
        per_priority_state == hp[sel.state].state.val[priority + 1]
        panic == /\ priority + 1 \in DOMAIN per_priority_panic_
                 /\ per_priority_panic_[priority + 1]
    IN  [priority |-> priority,
         h |-> h,
         host |-> lbChooseHost(per_priority_state.current_lb_, h),
         panic_inc |-> IF panic THEN 1 ELSE 0,
         rng |-> hash = NoHash,
         hash_calls |-> IF context.present THEN 1 ELSE 0,
         fault |-> FALSE]

\* Mutant of chooseHost: when the chosen level's selector returns no host,
\* the first level that has hosts is asked.
chooseHostRetries(sel, hp, context, rnd) ==
  IF sel.state = NullPtr THEN EarlyReturn
  ELSE
    LET hash == IF context.present THEN context.hash ELSE NoHash
        h == IF hash # NoHash THEN hash ELSE rnd
        priority == choosePriority(h, hp[sel.healthy].healthy.val,
                                   hp[sel.degraded].degraded.val)[1]
        vec == hp[sel.state].state.val
        per_priority_state == vec[priority + 1]
        first == lbChooseHost(per_priority_state.current_lb_, h)
        others == {i \in DOMAIN vec : vec[i].current_lb_.hosts # <<>>}
        next == CHOOSE i \in others : \A j \in others : i <= j
    IN  [priority |-> priority,
         h |-> h,
         host |-> IF first # NoHost \/ others = {} THEN first
                  ELSE lbChooseHost(vec[next].current_lb_, h),
         panic_inc |-> IF per_priority_state.global_panic_ THEN 1 ELSE 0,
         rng |-> hash = NoHash,
         hash_calls |-> IF context.present THEN 1 ELSE 0,
         fault |-> FALSE]

\* Mutant of chooseHost: computeHashKey() is called once to test for a hash
\* and once more to get its value.
chooseHostHashTwice(sel, hp, context, rnd) ==
  IF sel.state = NullPtr THEN EarlyReturn
  ELSE
    LET hash == IF context.present THEN context.hash ELSE NoHash
        h == IF hash # NoHash THEN hash ELSE rnd
        priority == choosePriority(h, hp[sel.healthy].healthy.val,
                                   hp[sel.degraded].degraded.val)[1]
        per_priority_state == hp[sel.state].state.val[priority + 1]
    IN  [priority |-> priority,
         h |-> h,
         host |-> lbChooseHost(per_priority_state.current_lb_, h),
         panic_inc |-> IF per_priority_state.global_panic_ THEN 1 ELSE 0,
         rng |-> hash = NoHash,
         hash_calls |-> IF ~context.present THEN 0 ELSE IF hash # NoHash THEN 2 ELSE 1,
         fault |-> FALSE]

\* Mutant of chooseHost: the hash is computed before the nullptr check.
chooseHostHashFirst(sel, hp, context, rnd) ==
  LET hash == IF context.present THEN context.hash ELSE NoHash
      h == IF hash # NoHash THEN hash ELSE rnd
  IN
  IF sel.state = NullPtr
  THEN [EarlyReturn EXCEPT !.rng = (hash = NoHash), !.h = h,
                           !.hash_calls = IF context.present THEN 1 ELSE 0]
  ELSE
    LET priority == choosePriority(h, hp[sel.healthy].healthy.val,
                                   hp[sel.degraded].degraded.val)[1]
        per_priority_state == hp[sel.state].state.val[priority + 1]
    IN  [priority |-> priority,
         h |-> h,
         host |-> lbChooseHost(per_priority_state.current_lb_, h),
         panic_inc |-> IF per_priority_state.global_panic_ THEN 1 ELSE 0,
         rng |-> hash = NoHash,
         hash_calls |-> IF context.present THEN 1 ELSE 0,
         fault |-> FALSE]

\* Lines 46-70 for the selector sel, over the heap hp, with the context and
\* the value rnd that random_.random() would return.
chooseHost(sel, hp, context, rnd) ==
  IF sel.state = NullPtr THEN EarlyReturn
  ELSE
    LET hash == IF context.present THEN context.hash ELSE NoHash
        h == IF hash # NoHash THEN hash ELSE rnd
        priority == choosePriority(h, hp[sel.healthy].healthy.val,
                                   hp[sel.degraded].degraded.val)[1]
        per_priority_state == hp[sel.state].state.val[priority + 1]
    IN  [priority |-> priority,
         h |-> h,
         host |-> lbChooseHost(per_priority_state.current_lb_, h),
         panic_inc |-> IF per_priority_state.global_panic_ THEN 1 ELSE 0,
         rng |-> hash = NoHash,
         hash_calls |-> IF context.present THEN 1 ELSE 0,
         fault |-> FALSE]

\* Lines 56-60, which run before any load or state is dereferenced:
\* computeHashKey() is called when there is a context, and random_.random()
\* when no hash resulted.
HashOrRandom(context, rnd) ==
  LET hash == IF context.present THEN context.hash ELSE NoHash
  IN  [EarlyReturn EXCEPT !.h = IF hash # NoHash THEN hash ELSE rnd,
                          !.rng = hash = NoHash,
                          !.hash_calls = IF context.present THEN 1 ELSE 0]

\* What undefined behaviour may produce after lines 56-60: a fault, or some
\* answer.
Undefined(sel, hp, context, rnd) ==
  LET done == HashOrRandom(context, rnd) IN
  { [done EXCEPT !.fault = TRUE],
    [done EXCEPT !.priority = 0, !.host = NoHost, !.panic_inc = 0],
    [done EXCEPT !.priority = 0, !.host = NoHost, !.panic_inc = 1],
    [done EXCEPT !.priority = 0, !.host = "a", !.panic_inc = 0],
    [done EXCEPT !.priority = 0, !.host = "a", !.panic_inc = 1] }

\* The selector's three targets as they were when create() copied them,
\* laid out as a heap in which the selector's pointers can be followed.
SnapHeap(sel, sn) ==
  [g \in Gens |-> [k \in Kinds |->
     IF sel[k] = g THEN [rc |-> 1, live |-> TRUE, val |-> sn[k]] ELSE NullObj]]

\* A worker calls chooseHost on its selector, with a context that is absent,
\* supplies no hash or supplies one of the hashes hs.  chooseHost changes
\* nothing but the stats sink.  The observed worker's call is recorded in last, together with
\* last.expect (the same call answered from what the selector pointed at on
\* creation) and last.current (the factory's state vector at the call).  With
\* keep, every call's context supplies the hash and the call may be kept in
\* memo.
ChooseHost(w, hs, keep) ==
  /\ wpc[w] = "have"
  /\ IF w # Observed THEN UNCHANGED <<last, memo>>
     ELSE \E call \in IF keep THEN HashCalls(hs, Randoms) ELSE Calls(hs, Randoms) :
       \E out \in IF Defined(lb[w], heap, call.context, call.rnd)
                   THEN {chooseHost(lb[w], heap, call.context, call.rnd)}
                   ELSE Undefined(lb[w], heap, call.context, call.rnd) :
         /\ last' = [context |-> call.context, w |-> w, out |-> out,
                     expect |->
                       IF Defined(lb[w], SnapHeap(lb[w], snap[w]), call.context, call.rnd)
                       THEN chooseHost(lb[w], SnapHeap(lb[w], snap[w]),
                                       call.context, call.rnd)
                       ELSE [HashOrRandom(call.context, call.rnd) EXCEPT !.fault = TRUE],
                     current |-> factory_.state]
         /\ \E k \in IF keep THEN BOOLEAN ELSE {FALSE} :
              memo' = IF k /\ memo.w = 0 /\ call.context.hash # NoHash
                      THEN [context |-> call.context, snap |-> snap[w], w |-> w,
                            out |-> out, sel |-> lb[w]]
                      ELSE memo
  /\ UNCHANGED <<baseVars, ctlVars, workerVars, factory_, mutex_, heap>>

\* ---------------------------------------------------------- specification
InitCommon ==
  /\ subscribed = FALSE
  /\ factory_ = NullPtrs
  /\ mutex_ = [writer |-> FALSE, readers |-> {}]
  /\ heap = [g \in Gens |-> [k \in Kinds |-> NullObj]]
  /\ ctl = [pc |-> "start", gen |-> NullPtr, idx |-> 0, result |-> "none"]
  /\ nRefresh = 0
  /\ wpc = [w \in Workers |-> "none"]
  /\ lb = [w \in Workers |-> NullPtrs]
  /\ last = NoCall
  /\ memo = NoMemo
  /\ before = NullPtrs
  /\ outcome = [g \in Gens |-> "none"]
  /\ snap = [w \in Workers |-> [k \in Kinds |-> <<>>]]
  /\ prev = NullPtr

InitTopology(ts) ==
  \E t \in ts :
    /\ priority_set_ = t.priority_set_
    /\ per_priority_panic_ = t.per_priority_panic_
    /\ healthy_per_priority_load_ = t.healthy_per_priority_load_
    /\ degraded_per_priority_load_ = t.degraded_per_priority_load_

Refresh ==
  \/ RefreshBuildLevel
  \/ RefreshBuildThrows
  \/ RefreshBlock
  \/ RefreshLock
  \/ RefreshSetDegraded
  \/ RefreshSetState
  \/ RefreshUnlock
  \/ RefreshReturn

Create(w) ==
  \/ CreateBegin(w)
  \/ CreateLock(w)
  \/ CreateCopyDegraded(w)
  \/ CreateReturn(w)

\* The control thread and the workers, interleaved.
Init == InitCommon /\ InitTopology(Range(Scenarios))
Next ==
  \/ Initialize
  \/ MemberUpdate(Scenarios)
  \/ Refresh
  \/ \E w \in Workers : Create(w) \/ DestroySelector(w) \/ ChooseHost(w, Hashes, FALSE)
Spec == Init /\ [][Next]_vars

\* One build from any load table and panic flags, and one worker selecting
\* with every kind of context.
InitSelect == InitCommon /\ InitTopology(WideTopologies)
NextSelect ==
  \/ Initialize
  \/ Refresh
  \/ \E w \in {Observed} :
       Create(w) \/ DestroySelector(w) \/ ChooseHost(w, WideHashes, FALSE)
SpecSelect == InitSelect /\ [][NextSelect]_vars

\* One build from an edge topology, and one worker selecting.
InitEdge == InitCommon /\ InitTopology(EdgeTopologies)
SpecEdge == InitEdge /\ [][NextSelect]_vars

\* The concurrent specification, with one earlier call kept for comparison.
NextDet ==
  \/ Initialize
  \/ MemberUpdate(Scenarios)
  \/ Refresh
  \/ \E w \in Workers :
       Create(w) \/ DestroySelector(w) \/ ChooseHost(w, Hashes, TRUE)
SpecDet == Init /\ [][NextDet]_vars

\* ---------------------------------------------------------- fair scheduling
\* refresh() is blocked inside Lock() at line 39.
WriterWaiting == ctl.pc = "wait"

\* A thread that is inside refresh() or create() keeps being scheduled: it
\* takes its next step when that step stays possible.  For a thread at a lock
\* this is weak fairness only: it gets a lock that stays available to it.
\* Nothing is assumed about which of several contenders the mutex admits.
RefreshStep == RefreshBuildLevel \/ RefreshBuildThrows \/ RefreshSetDegraded
                 \/ RefreshSetState \/ RefreshUnlock \/ RefreshReturn
RefreshAcquire == RefreshBlock \/ RefreshLock
CreateStep(w) == CreateLock(w) \/ CreateCopyDegraded(w) \/ CreateReturn(w)

\* The threads' steps that take, hold or wait for the lock; chooseHost takes
\* no lock and leaves the factory, the lock and the selectors unchanged.
NextFair ==
  \/ Initialize
  \/ MemberUpdate(Scenarios)
  \/ RefreshStep
  \/ RefreshAcquire
  \/ \E w \in Workers : CreateBegin(w) \/ CreateStep(w) \/ DestroySelector(w)
Fairness ==
  /\ WF_vars(RefreshStep)
  /\ WF_vars(RefreshAcquire)
  /\ \A w \in Workers : WF_vars(CreateStep(w))
SpecFair == Init /\ [][NextFair]_vars /\ Fairness

\* ------------------------------------------------------------------ claims
\* The worker holds a selector that create() returned.
Held(w) == wpc[w] = "have"

\* C1: every selector create() returned holds a healthy load, a degraded load
\* and a state vector published by one and the same refresh() call (the same
\* generation), or holds all three absent; never a mix of two refreshes or of
\* absent and present fields.
C1_SelectorHoldsOneGeneration ==
  \A w \in Workers : Held(w) =>
    /\ lb[w].healthy = lb[w].state
    /\ lb[w].degraded = lb[w].state
    /\ lb[w].state # NullPtr => outcome[lb[w].state] = "published"

\* Two selectors of two generations are held at once, each whole.
C1_Witness ==
  \E w1, w2 \in Workers :
    /\ Held(w1) /\ lb[w1] = [k \in Kinds |-> 1]
    /\ Held(w2) /\ lb[w2] = [k \in Kinds |-> 2]

\* C2: whatever refresh() does after create() returned, the targets of the
\* selector's three pointers are alive and are what they were when create()
\* copied them, and every chooseHost on the selector is answered from them.
C2_SnapshotIsolation ==
  /\ \A w \in Workers : Held(w) =>
       \A k \in Kinds : lb[w][k] # NullPtr =>
         /\ heap[lb[w][k]][k].live
         /\ heap[lb[w][k]][k].rc >= 1
         /\ heap[lb[w][k]][k].val = snap[w][k]
  /\ last.w # 0 => last.out = last.expect /\ ~last.out.fault

\* A selector of generation 1, now held by nobody else, answered a call with
\* a host after generation 2 had replaced it in the factory.
C2_Witness ==
  /\ Held(Observed) /\ lb[Observed] = [k \in Kinds |-> 1]
  /\ factory_ = [k \in Kinds |-> 2]
  /\ last.w = Observed /\ last.current = 2 /\ last.out.host # NoHost
  /\ \A k \in Kinds : heap[1][k].rc = 1

\* C3: a refresh() whose createLoadBalancer throws publishes nothing: until
\* the lock is taken, and after the throw, the factory's three fields are what
\* they were when that refresh() began; neither the factory nor any selector
\* ever points at a generation of a failed refresh(); and the caller of
\* initialize() or of the callback gets the exception.
C3_FailedRefreshPublishesNothing ==
  /\ ctl.pc \in {"build", "lock", "wait"} => factory_ = before
  /\ ctl.result = "threw" => factory_ = before
  /\ \A k \in Kinds : factory_[k] # NullPtr => outcome[factory_[k]] # "failed"
  /\ \A w \in Workers, k \in Kinds :
       lb[w][k] # NullPtr => outcome[lb[w][k]] # "failed"
  /\ (ctl.pc = "idle" /\ nRefresh > 0 /\ outcome[nRefresh] = "failed")
       => ctl.result = "threw"

\* The second refresh() threw: generation 1 is still current, generation 2 is
\* freed, and a worker holds generation 1.
C3_Witness ==
  /\ ctl.result = "threw" /\ nRefresh = 2 /\ outcome[2] = "failed"
  /\ factory_ = [k \in Kinds |-> 1]
  /\ \A k \in Kinds : ~heap[2][k].live
  /\ \E w \in Workers : Held(w) /\ lb[w].state = 1

\* C4: a selector whose three pointers are null returns no host for every
\* context, without faulting, choosing a priority, drawing from the RNG or
\* counting a panic, also after a refresh() has published.
C4_AbsentSelectorReturnsNoHost ==
  /\ \A w \in Workers : (Held(w) /\ lb[w] = NullPtrs) =>
       \A call \in Calls(Hashes, Randoms) :
         LET out == chooseHost(lb[w], heap, call.context, call.rnd)
         IN  /\ out.host = NoHost /\ ~out.fault /\ out.priority = NoPriority
             /\ ~out.rng /\ out.panic_inc = 0
  /\ (last.w # 0 /\ lb[last.w] = NullPtrs) =>
       /\ last.out.host = NoHost /\ ~last.out.fault
       /\ last.out.priority = NoPriority
       /\ ~last.out.rng /\ last.out.panic_inc = 0

\* A selector created before any publish was called, with a context that
\* supplies a hash, after a refresh() had published.
C4_Witness ==
  /\ last.w = Observed /\ Held(Observed) /\ lb[Observed] = NullPtrs
  /\ last.current # NullPtr /\ last.context.hash # NoHash
  /\ last.out.host = NoHost

\* C5: the generations a worker's successive create() calls return never
\* decrease.
C5_MonotonicVisibility ==
  Held(Observed) => \A k \in Kinds : lb[Observed][k] >= prev

\* The observed worker held generation 1 and now holds generation 2.
C5_Witness ==
  Held(Observed) /\ prev = 1 /\ lb[Observed].state = 2

\* The worker holds a selector whose pointers are not null.
Present(w) == Held(w) /\ lb[w].state # NullPtr

\* The residues of a hash modulo 100.
Points == 0..99

\* The sum of the first i entries of a load sequence.
PrefixSum(load, i) == SumSeq(SubSeq(load, 1, i))

\* The first index (0-based) at which base plus the running sum of load
\* exceeds the point, or NoPriority when none does.
FirstCovering(load, base, point) ==
  LET covering == {i \in 1..Len(load) : base + PrefixSum(load, i) > point}
  IN  IF covering = {} THEN NoPriority
      ELSE (CHOOSE i \in covering : \A j \in covering : i <= j) - 1

\* The two-pass rule: the healthy pass, else the degraded pass, whose running
\* sum goes on from the healthy total; NoPriority when neither covers the point.
TwoPassPriority(healthy, degraded, point) ==
  IF FirstCovering(healthy, 0, point) # NoPriority
  THEN FirstCovering(healthy, 0, point)
  ELSE FirstCovering(degraded, SumSeq(healthy), point)

\* The outcome of chooseHost on the worker's selector with a context that
\* supplies the hash h.
CallWithHash(w, h) == chooseHost(lb[w], heap, Context(h), Randoms[1])

\* The observed worker has just got a selector with a snapshot and has not
\* called it yet.
Fresh == Present(Observed) /\ last.w = 0

\* The observed worker's latest call was made on a selector with a snapshot.
Called == last.w # 0 /\ Present(Observed) /\ ~last.out.fault

\* C6: with point p = hash mod 100, chooseHost picks the first priority whose
\* cumulative healthy weight exceeds p; if none does, the first priority at
\* which the degraded weights, accumulated on top of the healthy total, exceed
\* p.  With healthy weights all 0 and degraded weights <<100, 0>>, every hash
\* picks priority 0, which the healthy pass does not cover.
C6_TwoPassPriority ==
  LET healthy == snap[Observed].healthy
      degraded == snap[Observed].degraded
  IN
  /\ Fresh =>
       \A p \in Points :
         /\ TwoPassPriority(healthy, degraded, p) # NoPriority
              => CallWithHash(Observed, p).priority = TwoPassPriority(healthy, degraded, p)
         /\ (SumSeq(healthy) = 0 /\ degraded = <<100, 0>>)
              => /\ CallWithHash(Observed, p).priority = 0
                 /\ FirstCovering(healthy, 0, p) = NoPriority
  /\ Called =>
       LET p == last.out.h % 100 IN
       /\ TwoPassPriority(healthy, degraded, p) # NoPriority
            => last.out.priority = TwoPassPriority(healthy, degraded, p)
       /\ (SumSeq(healthy) = 0 /\ degraded = <<100, 0>>) => last.out.priority = 0

\* A call with hash 140 on healthy <<0, 0>> and degraded <<100, 0>> picked
\* priority 0.
C6_Witness ==
  /\ Called
  /\ snap[Observed].healthy = <<0, 0>> /\ snap[Observed].degraded = <<100, 0>>
  /\ last.context.hash = 140 /\ last.out.priority = 0

\* C7: when the healthy and degraded weights together do not reach the point,
\* chooseHost does not fault: it picks the last priority level and returns what
\* that level's selector returns.
C7_UncoveredPointFallsBackToLast ==
  LET healthy == snap[Observed].healthy
      degraded == snap[Observed].degraded
      levels == snap[Observed].state
      total == SumSeq(healthy) + SumSeq(degraded)
  IN
  /\ Fresh =>
       \A p \in Points : p >= total =>
         /\ Defined(lb[Observed], heap, Context(p), p)
         /\ CallWithHash(Observed, p).priority = Len(levels) - 1
         /\ CallWithHash(Observed, p).host
              = lbChooseHost(levels[Len(levels)].current_lb_, p)
  /\ (last.w # 0 /\ Present(Observed) /\ last.out.h % 100 >= total) =>
       /\ ~last.out.fault
       /\ last.out.priority = Len(levels) - 1
       /\ last.out.host = lbChooseHost(levels[Len(levels)].current_lb_, last.out.h)

\* A call at point 99 on a single priority whose weights sum to 40 got a host
\* of priority 0.
C7_Witness ==
  /\ Called
  /\ snap[Observed].healthy = <<40>> /\ snap[Observed].degraded = <<0>>
  /\ last.out.h = 99 /\ last.out.priority = 0 /\ last.out.host # NoHost

\* C8: when the healthy weights sum to 100, exactly healthy[i] of the 100
\* residues pick priority i, and a hash picks what its residue picks.
C8_WeightConformance ==
  LET healthy == snap[Observed].healthy IN
  /\ (Fresh /\ SumSeq(healthy) = 100) =>
       /\ \A i \in 1..Len(healthy) :
            Cardinality({p \in Points : CallWithHash(Observed, p).priority = i - 1})
              = healthy[i]
       /\ \A h \in Range(WideHashes) :
            CallWithHash(Observed, h).priority = CallWithHash(Observed, h % 100).priority
  /\ (Called /\ SumSeq(healthy) = 100) =>
       last.out.priority = CallWithHash(Observed, last.out.h % 100).priority

\* A call with hash 140 on healthy <<30, 70>> picked priority 1.
C8_Witness ==
  /\ Called
  /\ snap[Observed].healthy = <<30, 70>>
  /\ last.context.hash = 140 /\ last.out.priority = 1

\* C9: two chooseHost calls with the same context-supplied hash on selectors
\* whose captured load tables and per-priority states are the same pick the
\* same priority and return the same host, whatever happened in between.
C9_Determinism ==
  (/\ memo.w # 0 /\ last.w # 0
   /\ last.context.hash # NoHash
   /\ last.context.hash = memo.context.hash
   /\ snap[Observed] = memo.snap)
  => /\ last.out.priority = memo.out.priority
     /\ last.out.host = memo.out.host
     /\ last.out.fault = memo.out.fault

\* The kept call was made on a selector of generation 1 and the latest one,
\* with the same hash, on a selector of generation 2 with the same contents.
C9_Witness ==
  /\ memo.w # 0 /\ last.w # 0
  /\ last.context.hash = memo.context.hash
  /\ memo.sel.state = 1 /\ lb[Observed].state = 2
  /\ snap[Observed] = memo.snap
  /\ last.out.host # NoHost

\* C10: a call that resolves to a level whose captured panic flag is true
\* counts one panic, a call that resolves to a level whose flag is false, or
\* that returns early, counts none, and either way the call returns what the
\* level's selector returns.
C10_PanicPropagation ==
  last.w # 0 =>
    IF lb[Observed].state = NullPtr THEN last.out.panic_inc = 0
    ELSE /\ ~last.out.fault
         /\ last.out.priority + 1 \in DOMAIN snap[Observed].state
         /\ LET level == snap[Observed].state[last.out.priority + 1] IN
            /\ last.out.panic_inc = (IF level.global_panic_ THEN 1 ELSE 0)
            /\ last.out.host = lbChooseHost(level.current_lb_, last.out.h)

\* A call counted one panic for a level whose captured flag is true while the
\* builder's current flag for that priority is false.
C10_Witness ==
  /\ Called
  /\ last.out.panic_inc = 1
  /\ snap[Observed].state[last.out.priority + 1].global_panic_
  /\ ~per_priority_panic_[last.out.priority + 1]

\* C11: chooseHost never faults: on a selector without a snapshot, with a
\* snapshot built from zero priority levels, with a level without hosts or
\* with an all-zero load table, every call is defined and ends in no host or
\* in a host of one of the snapshot's levels.
C11_ChooseHostNeverFaults ==
  /\ Held(Observed) =>
       \A call \in Calls(WideHashes, Randoms) :
         Defined(lb[Observed], heap, call.context, call.rnd)
  /\ last.w # 0 =>
       /\ ~last.out.fault
       /\ \/ last.out.host = NoHost
          \/ \E i \in DOMAIN snap[Observed].state :
               last.out.host \in Range(snap[Observed].state[i].current_lb_.hosts)

\* C12: a call consults one level only, the one choosePriority picks from the
\* captured load tables: the host returned is what that level's selector
\* returns, so it is no host when the level has no hosts, even if another
\* level has some.
C12_OneLevelPerCall ==
  Called =>
    LET levels == snap[Observed].state
        priority == choosePriority(last.out.h, snap[Observed].healthy,
                                   snap[Observed].degraded)[1]
        chosen == levels[priority + 1].current_lb_
    IN  /\ last.out.priority = priority
        /\ last.out.host = lbChooseHost(chosen, last.out.h)
        /\ chosen.hosts = <<>> => last.out.host = NoHost
        /\ last.out.host # NoHost => last.out.host \in Range(chosen.hosts)

\* A call returned no host from a level without hosts while another level of
\* the snapshot has hosts.
C12_Witness ==
  /\ Called
  /\ last.out.host = NoHost
  /\ snap[Observed].state[last.out.priority + 1].current_lb_.hosts = <<>>
  /\ \E i \in DOMAIN snap[Observed].state :
       snap[Observed].state[i].current_lb_.hosts # <<>>

\* C13: while the control thread holds the writer lock, refresh() is at one of
\* its three assignments and the generation it publishes is complete: the
\* load tables are copied and every level's selector is built.  While a level
\* is being built, the writer lock is not held.
C13_BuiltBeforeWriterLock ==
  /\ mutex_.writer =>
       /\ ctl.pc \in {"set_degraded", "set_state", "unlock"}
       /\ heap[ctl.gen].healthy.val = healthy_per_priority_load_
       /\ heap[ctl.gen].degraded.val = degraded_per_priority_load_
       /\ Len(heap[ctl.gen].state.val) = Len(priority_set_)
       /\ \A i \in DOMAIN heap[ctl.gen].state.val :
            /\ heap[ctl.gen].state.val[i].set
            /\ heap[ctl.gen].state.val[i].current_lb_.built
  /\ ctl.pc \in {"build", "lock", "wait"} => ~mutex_.writer

\* The writer lock is held for a generation of two built levels.
C13_Witness ==
  /\ mutex_.writer
  /\ Len(heap[ctl.gen].state.val) = 2
  /\ \A i \in 1..2 : heap[ctl.gen].state.val[i].current_lb_.built

\* C14: in a call on a selector with a snapshot, computeHashKey() is called
\* once when a context is supplied and not at all otherwise; the RNG is drawn
\* when the context is absent or yields no hash and not when it yields one; h
\* is the hash when there is one and the drawn value otherwise; and that one h
\* both chooses the priority and is passed to the chosen level's selector.
C14_OneHashOneValue ==
  Called =>
    LET hashed == last.context.present /\ last.context.hash # NoHash
        priority == choosePriority(last.out.h, snap[Observed].healthy,
                                   snap[Observed].degraded)[1]
    IN  /\ last.out.hash_calls = (IF last.context.present THEN 1 ELSE 0)
        /\ last.out.rng = ~hashed
        /\ hashed => last.out.h = last.context.hash
        /\ ~hashed => last.out.h \in Range(Randoms)
        /\ last.out.priority = priority
        /\ last.out.host
             = lbChooseHost(snap[Observed].state[priority + 1].current_lb_, last.out.h)

\* A call whose context yields no hash drew the RNG after one computeHashKey()
\* call and got a host.
C14_Witness ==
  /\ Called
  /\ last.context.present /\ last.context.hash = NoHash
  /\ last.out.rng /\ last.out.hash_calls = 1
  /\ last.out.host # NoHost

\* The generations refresh() has published and that are still alive.
Published == {g \in Gens : outcome[g] = "published" /\ \A k \in Kinds : heap[g][k].live}

\* C15: in every published generation the state vector, the healthy load and
\* the degraded load have the same length, and every priority chooseHost
\* derives from the generation's load tables is an index of its state vector.
C15_LevelsMatchLoads ==
  \A g \in Published :
    /\ Len(heap[g].state.val) = Len(heap[g].healthy.val)
    /\ Len(heap[g].state.val) = Len(heap[g].degraded.val)
    /\ \A h \in Range(WideHashes) :
         choosePriority(h, heap[g].healthy.val, heap[g].degraded.val)[1] + 1
           \in DOMAIN heap[g].state.val

\* C16: every slot of a published state vector holds a state with a built
\* selector and the panic flag the strategy was given for it; while the
\* generation is the latest built, slot i holds the selector of the host set
\* of priority i and the builder's flag for it; and during the build the
\* slots filled are exactly those of the host sets already visited.
C16_EverySlotFilledOnce ==
  /\ \A g \in Published : \A i \in DOMAIN heap[g].state.val :
       LET state == heap[g].state.val[i] IN
       /\ state.set /\ state.current_lb_.built
       /\ state.global_panic_ = state.current_lb_.in_panic
       /\ (ctl.pc = "idle" /\ nRefresh = g) =>
            /\ Len(heap[g].state.val) = Len(priority_set_)
            /\ state.current_lb_.hosts = priority_set_[i].hosts
            /\ state.global_panic_ = per_priority_panic_[i]
  /\ ctl.pc = "build" =>
       \A i \in DOMAIN heap[ctl.gen].state.val :
         heap[ctl.gen].state.val[i].set <=> i < ctl.idx

\* The latest published generation has two levels, the first in panic and
\* the second not.
C16_Witness ==
  \E g \in Published :
    /\ ctl.pc = "idle" /\ nRefresh = g
    /\ Len(heap[g].state.val) = 2
    /\ heap[g].state.val[1].global_panic_ /\ ~heap[g].state.val[2].global_panic_

\* C17: no step changes the load sequences, panic flags or selectors of a
\* published generation that is alive after the step.
C17_PublishedIsImmutable ==
  [][\A g \in Gens, k \in Kinds :
       (outcome[g] = "published" /\ heap[g][k].live /\ heap'[g][k].live)
         => heap'[g][k].val = heap[g][k].val]_vars

\* Generation 1 is alive with its panic flag, after generation 2 was
\* published from inputs with another flag for that priority.
C17_Witness ==
  /\ Published = {1, 2}
  /\ ctl.pc = "idle"
  /\ heap[1].state.val[1].global_panic_ # per_priority_panic_[1]
  /\ heap[1].healthy.val # healthy_per_priority_load_

\* initialize() or the callback has returned without an exception.
Returned == ctl.pc = "idle" /\ ctl.result = "returned"

\* C18: when initialize() or a notification has returned without error, the
\* callback is registered, at least one refresh() has run, and the factory's
\* three fields point at the generation of the latest refresh(), which holds
\* the builder's current loads, host sets and panic flags; a change of the
\* builder's inputs starts exactly one refresh() in the same step; and a
\* create() that starts after the return copies that latest generation.
C18_ReturnedMeansCurrent ==
  /\ [](Returned =>
         /\ subscribed /\ nRefresh >= 1
         /\ factory_ = [k \in Kinds |-> nRefresh]
         /\ heap[nRefresh].healthy.val = healthy_per_priority_load_
         /\ heap[nRefresh].degraded.val = degraded_per_priority_load_
         /\ Len(heap[nRefresh].state.val) = Len(priority_set_)
         /\ \A i \in DOMAIN priority_set_ :
              /\ heap[nRefresh].state.val[i].current_lb_.hosts = priority_set_[i].hosts
              /\ heap[nRefresh].state.val[i].global_panic_ = per_priority_panic_[i])
  /\ [][/\ nRefresh' \in {nRefresh, nRefresh + 1}
        /\ baseVars' # baseVars => nRefresh' = nRefresh + 1
        /\ nRefresh' # nRefresh => ctl.pc \in {"start", "idle"}
        /\ \A w \in Workers :
             (Returned /\ wpc[w] = "enter" /\ wpc'[w] # "enter")
               => lb'[w].healthy = nRefresh]_vars
  /\ [](\A w \in Workers :
         /\ wpc[w] = "copy_state" => lb[w].degraded = lb[w].healthy
         /\ wpc[w] = "have" => lb[w] = [k \in Kinds |-> lb[w].healthy])

\* After the second refresh() returned, a worker is in a create() that has
\* copied the healthy load of generation 2.
C18_Witness ==
  /\ Returned /\ nRefresh = 2
  /\ factory_ = [k \in Kinds |-> 2]
  /\ \E w \in Workers : wpc[w] = "copy_degraded" /\ lb[w].healthy = 2

\* C20: the factory's fields change only in the publishing steps of
\* refresh(), with the writer lock held; a worker copies them only inside
\* create(), holding the reader lock from its first copy to its return; the
\* writer never holds the lock together with a reader, while several readers
\* may; and a chooseHost call changes neither the lock nor the factory.
C20_LockDiscipline ==
  /\ [](/\ ~(mutex_.writer /\ mutex_.readers # {})
        /\ mutex_.writer <=> ctl.pc \in {"set_degraded", "set_state", "unlock"}
        /\ \A w \in Workers :
             w \in mutex_.readers <=> wpc[w] \in {"copy_degraded", "copy_state"})
  /\ [][/\ factory_' # factory_ =>
             /\ mutex_.writer \/ mutex_'.writer
             /\ ctl.pc \in {"lock", "wait", "set_degraded", "set_state"}
             /\ lb' = lb
        /\ \A w \in Workers :
             (lb'[w] # lb[w] /\ wpc'[w] # "none") =>
                /\ w \in mutex_.readers \/ w \in mutex_'.readers
                /\ ~mutex_.writer /\ ~mutex_'.writer
                /\ \E k \in Kinds : lb'[w] = [lb[w] EXCEPT ![k] = factory_[k]]
        /\ (last' # last /\ last'.w # 0) =>
             mutex_' = mutex_ /\ factory_' = factory_ /\ lb' = lb /\ heap' = heap]_vars

\* Every worker holds the reader lock at once while refresh() waits for the
\* writer lock.
C20_Witness ==
  /\ mutex_.readers = Workers
  /\ ~mutex_.writer
  /\ ctl.pc = "lock"

\* Generation g holds the builder's current loads, host sets and flags.
BuiltFromInputs(g) ==
  /\ heap[g].healthy.val = healthy_per_priority_load_
  /\ heap[g].degraded.val = degraded_per_priority_load_
  /\ Len(heap[g].state.val) = Len(priority_set_)
  /\ \A i \in DOMAIN priority_set_ :
       /\ heap[g].state.val[i].current_lb_.hosts = priority_set_[i].hosts
       /\ heap[g].state.val[i].global_panic_ = per_priority_panic_[i]

\* The worker is inside create(): at the lock or holding it.
Started(w) == wpc[w] \in {"enter", "copy_degraded", "copy_state"}

\* The generation g of a refresh() is published and the call has returned
\* with the writer lock released.
PublishedAndReturned(g) ==
  /\ outcome[g] = "published"
  /\ factory_ = [k \in Kinds |-> g]
  /\ ~mutex_.writer /\ ctl.pc = "idle"

\* The factory stays at generation g, built from the builder's inputs, and
\* every create() holding the lock has copied g.
ConvergedTo(g) ==
  /\ factory_ = [k \in Kinds |-> g]
  /\ BuiltFromInputs(g)
  /\ \A w \in mutex_.readers : lb[w].healthy = g

\* No call that has returned, and no thread outside refresh() and create(),
\* holds the lock.
ReleasedOnReturn ==
  /\ ctl.pc \in {"start", "idle"} => ~mutex_.writer
  /\ \A w \in Workers : wpc[w] \in {"none", "have"} => w \notin mutex_.readers

====
